---- MODULE Spec2Model ----
(***************************************************************************)
(* Model of src/app.py: a Flask todo list whose whole state is one JSON    *)
(* file (todos.json).  Every request handler loads the whole file, applies *)
(* one operation and writes the whole file back; the handlers run on the   *)
(* threads of the development server and nothing locks the file.           *)
(*                                                                         *)
(* Python values are represented as follows.                               *)
(*   str            a sequence of characters, "" is << >>; a character is  *)
(*                  a one-character string, or its Python escape (such as  *)
(*                  "\\x0b", "\\u2003") when a string here cannot hold it  *)
(*   None           the tuple <<"None">>                                   *)
(*   ISO timestamp  the tuple <<"iso", t>> for the clock reading t         *)
(*   Todo           a record with the five dataclass fields                *)
(* The clock is read in half seconds and the module was imported half past *)
(* a second: the odd readings fall on a whole second.                      *)
(* A JSON document is a sequence of objects whose members are tagged JSON  *)
(* values (number, string, true, false, null).                             *)
(***************************************************************************)
EXTENDS Integers, Sequences, FiniteSets, TLC

VARIABLES
    file,       \* content of DATA_FILE (todos.json)
    now,        \* the latest reading of the wall clock (datetime.utcnow())
    issued,     \* history: the ids get_next_id has handed out
    wk,         \* each worker thread's request, position and local todos
    started,    \* number of requests taken so far
    lastWriter, \* the worker whose write_text finished last
    serial      \* history: no request so far began while another was between
                \* its load and the end of its write

vars == <<file, now, issued, wk, started, lastWriter, serial>>

(***************************************************************************)
(* Bound of the model.                                                     *)
(***************************************************************************)
MaxRequests == 2   \* requests the server takes

(***************************************************************************)
(* The time the module was imported: the dataclass default for created_at  *)
(* is evaluated once, when the class body runs.                            *)
(***************************************************************************)
ImportTime == 0

None == <<"None">>
EmptyStr == << >>
\* the characters str.strip() removes: those for which str.isspace() holds
Whitespace ==
    {" ", "\t", "\n", "\r", "\f", "\\x0b", "\\x1c", "\\x1d", "\\x1e", "\\x1f",
     "\\x85", "\\xa0", "\\u1680", "\\u2000", "\\u2001", "\\u2002", "\\u2003",
     "\\u2004", "\\u2005", "\\u2006", "\\u2007", "\\u2008", "\\u2009",
     "\\u200a", "\\u2028", "\\u2029", "\\u202f", "\\u205f", "\\u3000"}

\* the microsecond field of the clock reading t
microsecond(t) == ((t + 1) % 2) * 500000

isoformat(t) == <<"iso", t>>

\* what request.form.get("text") can return: no field, blank texts, a plain
\* text, and a text of a control character and a character outside ASCII
\* with whitespace around it
FormTexts ==
    {None, EmptyStr, <<"\t", " ">>, <<"a">>,
     <<" ", "\\x01", "\\u20ac", "\n">>}
\* what the <int:todo_id> converter can pass to a handler: no record has
\* id 0, the records of an earlier run have the ids 1 and 2
IdInputs == {0, 1, 2}
\* what datetime.utcnow() can return while the server runs: a reading on a
\* whole second and a later one that is not
Times == {ImportTime + 1, ImportTime + 2}
\* what request.args.get("filter", "all") can return
Filters == {"all", "active", "completed", "deleted", "other"}

(***************************************************************************)
(* str.strip(): drop leading and trailing whitespace.                      *)
(***************************************************************************)
RECURSIVE lstrip(_)
lstrip(s) ==
    IF s # EmptyStr /\ Head(s) \in Whitespace THEN lstrip(Tail(s)) ELSE s

RECURSIVE rstrip(_)
rstrip(s) ==
    IF s # EmptyStr /\ s[Len(s)] \in Whitespace
    THEN rstrip(SubSeq(s, 1, Len(s) - 1))
    ELSE s

\* variant: the text is taken as submitted
strip_NotTrimmed(s) == s

strip(s) == rstrip(lstrip(s))

\* (x or ""): None and "" are both falsy
or_empty(x) == IF x = None \/ x = EmptyStr THEN EmptyStr ELSE x

(***************************************************************************)
(* The Todo dataclass.                                                     *)
(***************************************************************************)
FieldNames == {"id", "text", "completed", "created_at", "deleted_at"}
RequiredFields == {"id", "text"}

\* variant: records are created completed
TodoDefaults_CreatedCompleted ==
    [completed |-> TRUE, created_at |-> isoformat(ImportTime), deleted_at |-> None]

TodoDefaults ==
    [completed |-> FALSE, created_at |-> isoformat(ImportTime), deleted_at |-> None]

\* Todo(id=..., text=...): the other fields take their defaults
Todo(id, text) ==
    [id |-> id, text |-> text,
     completed |-> TodoDefaults.completed,
     created_at |-> TodoDefaults.created_at,
     deleted_at |-> TodoDefaults.deleted_at]

\* Todo(**item) raises TypeError on an unknown or a missing required keyword
TodoAccepts(item) ==
    /\ DOMAIN item \subseteq FieldNames
    /\ RequiredFields \subseteq DOMAIN item

\* Todo(**item): the keywords given, the defaults for the others
TodoFromItem(item) ==
    [id |-> item.id,
     text |-> item.text,
     completed |-> IF "completed" \in DOMAIN item
                   THEN item.completed ELSE TodoDefaults.completed,
     created_at |-> IF "created_at" \in DOMAIN item
                    THEN item.created_at ELSE TodoDefaults.created_at,
     deleted_at |-> IF "deleted_at" \in DOMAIN item
                    THEN item.deleted_at ELSE TodoDefaults.deleted_at]

(***************************************************************************)
(* JSON encoding and decoding of the fields.                               *)
(***************************************************************************)
JNull == [j |-> "null"]
JTrue == [j |-> "true"]
JFalse == [j |-> "false"]
JNum(n) == [j |-> "number", n |-> n]
JStr(s) == [j |-> "string", s |-> s]

JStrOrNull(v) == IF v = None THEN JNull ELSE JStr(v)

\* variant: the completed flag is always written as false
dumps_item_DropsCompleted(t) ==
    [id |-> JNum(t.id),
     text |-> JStrOrNull(t.text),
     completed |-> JFalse,
     created_at |-> JStrOrNull(t.created_at),
     deleted_at |-> JStrOrNull(t.deleted_at)]

\* json.dumps(asdict(t))
dumps_item(t) ==
    [id |-> JNum(t.id),
     text |-> JStrOrNull(t.text),
     completed |-> IF t.completed THEN JTrue ELSE JFalse,
     created_at |-> JStrOrNull(t.created_at),
     deleted_at |-> JStrOrNull(t.deleted_at)]

\* variant: null is read as the empty string
loads_value_NullAsEmpty(v) ==
    CASE v.j = "null" -> EmptyStr
      [] v.j = "true" -> TRUE
      [] v.j = "false" -> FALSE
      [] v.j = "number" -> v.n
      [] v.j = "string" -> v.s

\* json.loads of one member's value
loads_value(v) ==
    CASE v.j = "null" -> None
      [] v.j = "true" -> TRUE
      [] v.j = "false" -> FALSE
      [] v.j = "number" -> v.n
      [] v.j = "string" -> v.s

\* json.loads of one object
loads_item(obj) == [k \in DOMAIN obj |-> loads_value(obj[k])]

(***************************************************************************)
(* The number of bytes json.dumps(..., ensure_ascii=False, indent=2)       *)
(* produces in UTF-8.  A timestamp from isoformat() has 26 characters, 19  *)
(* when the microsecond field is 0.  In a text a quote, a backslash and    *)
(* the control characters with a short escape (\b \t \n \f \r) take two    *)
(* bytes, the other characters below 0x20 six (\u00XX), every other        *)
(* character its UTF-8 length.  A lone surrogate, which write_text cannot  *)
(* encode, is not a character of the model.                                *)
(***************************************************************************)
IsoLen == 26
IsoLenWholeSecond == 19
ItemOverhead == 91

HexDigit(d) ==
    CASE d = "0" -> 0 [] d = "1" -> 1 [] d = "2" -> 2 [] d = "3" -> 3
      [] d = "4" -> 4 [] d = "5" -> 5 [] d = "6" -> 6 [] d = "7" -> 7
      [] d = "8" -> 8 [] d = "9" -> 9 [] d = "a" -> 10 [] d = "b" -> 11
      [] d = "c" -> 12 [] d = "d" -> 13 [] d = "e" -> 14 [] d = "f" -> 15

RECURSIVE HexValue(_)
HexValue(s) ==
    IF Len(s) = 0 THEN 0
    ELSE HexValue(SubSeq(s, 1, Len(s) - 1)) * 16
            + HexDigit(SubSeq(s, Len(s), Len(s)))

\* the code point of a character written as a Python escape: \xNN, \uNNNN
\* or \UNNNNNNNN
ord_escape(c) == HexValue(SubSeq(c, 3, Len(c)))

\* the bytes of one character of a string in the JSON text
json_char_len(c) ==
    IF Len(c) = 1
    THEN (IF c \in {"\"", "\\", "\t", "\n", "\r", "\f"} THEN 2 ELSE 1)
    ELSE IF ord_escape(c) < 32
         THEN (IF ord_escape(c) \in {8, 9, 10, 12, 13} THEN 2 ELSE 6)
    ELSE IF ord_escape(c) < 128
         THEN (IF ord_escape(c) \in {34, 92} THEN 2 ELSE 1)
    ELSE IF ord_escape(c) < 2048 THEN 2
    ELSE IF ord_escape(c) < 65536 THEN 3
    ELSE 4

RECURSIVE json_text_len(_)
json_text_len(s) ==
    IF s = << >> THEN 0 ELSE json_char_len(Head(s)) + json_text_len(Tail(s))

StrLen(s) ==
    IF Len(s) = 2 /\ s[1] = "iso"
    THEN (IF microsecond(s[2]) = 0 THEN IsoLenWholeSecond ELSE IsoLen)
    ELSE json_text_len(s)

\* the number of decimal digits of a number that is not negative
RECURSIVE json_digits(_)
json_digits(n) == IF n < 10 THEN 1 ELSE 1 + json_digits(n \div 10)

json_len_value(v) ==
    CASE v.j = "null" -> 4
      [] v.j = "true" -> 4
      [] v.j = "false" -> 5
      [] v.j = "number" -> json_digits(v.n)
      [] v.j = "string" -> StrLen(v.s) + 2

json_len_item(obj) ==
    ItemOverhead + json_len_value(obj.id) + json_len_value(obj.text)
        + json_len_value(obj.completed) + json_len_value(obj.created_at)
        + json_len_value(obj.deleted_at)

RECURSIVE json_len_items(_)
json_len_items(doc) ==
    IF doc = << >> THEN 0 ELSE json_len_item(Head(doc)) + json_len_items(Tail(doc))

json_len(doc) ==
    IF doc = << >> THEN 2 ELSE json_len_items(doc) + 2 * Len(doc) + 2

(***************************************************************************)
(* The persisted file.                                                     *)
(*   missing    DATA_FILE does not exist                                   *)
(*   truncated  the file exists with no bytes (just opened for writing)    *)
(*   garbled    the file holds bytes that json.loads rejects               *)
(*   json       the file holds a JSON array of objects, doc                *)
(* size is the number of bytes in the file.                                *)
(***************************************************************************)
FileMissing == [kind |-> "missing", doc |-> << >>, size |-> 0]
FileTruncated == [kind |-> "truncated", doc |-> << >>, size |-> 0]
FileGarbled(n) == [kind |-> "garbled", doc |-> << >>, size |-> n]
FileJson(doc) == [kind |-> "json", doc |-> doc, size |-> json_len(doc)]

\* [Todo(**item) for item in data]
RECURSIVE todos_of(_)
todos_of(data) ==
    IF data = << >> THEN << >>
    ELSE <<TodoFromItem(loads_item(Head(data)))>> \o todos_of(Tail(data))

load_todos(f) ==
    IF f.kind = "missing" THEN << >>
    ELSE IF f.kind = "json" /\ \A i \in 1 .. Len(f.doc) : TodoAccepts(f.doc[i])
         THEN todos_of(f.doc)
         ELSE << >>

\* json.dumps([asdict(t) for t in todos]): the array the text denotes
RECURSIVE dumps(_)
dumps(todos) ==
    IF todos = << >> THEN << >>
    ELSE <<dumps_item(Head(todos))>> \o dumps(Tail(todos))

\* write_text, first half: open(path, "w") creates or truncates the file
open_w(f) == FileTruncated

\* write_text, second half: the buffered text is written at offset 0 when the
\* file is closed; bytes another writer put beyond its end stay in the file
write_close(f, todos) ==
    IF f.size > json_len(dumps(todos))
    THEN FileGarbled(f.size)
    ELSE FileJson(dumps(todos))

\* write_text of a request handled alone
save_todos(f, todos) == write_close(open_w(f), todos)

\* max(..., default=0)
MaxOf(S) == IF S = {} THEN 0 ELSE CHOOSE y \in S : \A z \in S : z <= y

Ids(todos) == {todos[i].id : i \in 1 .. Len(todos)}

\* variant: the largest id is not incremented
get_next_id_NoIncrement(todos) == MaxOf(Ids(todos))

\* variant: the next id is taken from the number of records
get_next_id_ByCount(todos) == Len(todos) + 1

get_next_id(todos) == MaxOf(Ids(todos)) + 1

(***************************************************************************)
(* The list operations of the handlers, between load_todos and save_todos. *)
(***************************************************************************)
\* variant: the loop's condition does not look at deleted_at
FirstMatch_AnyState(todos, todo_id, wantDeleted) ==
    LET hits == {i \in 1 .. Len(todos) : todos[i].id = todo_id}
    IN IF hits = {} THEN 0 ELSE CHOOSE i \in hits : \A k \in hits : i <= k

\* index of the first record the loop's condition accepts, 0 when it never breaks
FirstMatch(todos, todo_id, wantDeleted) ==
    LET hits == {i \in 1 .. Len(todos) :
                    /\ todos[i].id = todo_id
                    /\ (todos[i].deleted_at # None) = wantDeleted}
    IN IF hits = {} THEN 0 ELSE CHOOSE i \in hits : \A k \in hits : i <= k

\* variant: the new record is appended
add_insert_Appends(todos, text) == todos \o <<Todo(get_next_id(todos), text)>>

add_insert(todos, text) == <<Todo(get_next_id(todos), text)>> \o todos

toggle_loop(todos, todo_id) ==
    LET i == FirstMatch(todos, todo_id, FALSE)
    IN IF i = 0 THEN todos
       ELSE [todos EXCEPT ![i].completed = ~todos[i].completed]

\* variant: deleting also resets completed
delete_loop_ResetsCompleted(todos, todo_id, t) ==
    LET i == FirstMatch(todos, todo_id, FALSE)
    IN IF i = 0 THEN todos
       ELSE [todos EXCEPT ![i].deleted_at = isoformat(t), ![i].completed = FALSE]

delete_loop(todos, todo_id, t) ==
    LET i == FirstMatch(todos, todo_id, FALSE)
    IN IF i = 0 THEN todos
       ELSE [todos EXCEPT ![i].deleted_at = isoformat(t)]

\* variant: the loop has no break and does not compare the id
restore_loop_RestoresAll(todos, todo_id) ==
    [i \in 1 .. Len(todos) |-> [todos[i] EXCEPT !.deleted_at = None]]

restore_loop(todos, todo_id) ==
    LET i == FirstMatch(todos, todo_id, TRUE)
    IN IF i = 0 THEN todos
       ELSE [todos EXCEPT ![i].deleted_at = None]

\* variant: the comprehension drops every completed record
KeepOnClearCompleted_NotCompleted(t) == ~t.completed

KeepOnClearCompleted(t) == ~t.completed \/ t.deleted_at # None
\* variant: the comprehension keeps only the active view
KeepOnClearDeleted_ActiveOnly(t) == ~t.completed /\ t.deleted_at = None

KeepOnClearDeleted(t) == t.deleted_at = None

clear_completed_filter(todos) == SelectSeq(todos, KeepOnClearCompleted)

\* variant: the comprehension keeps the soft-deleted records not completed
clear_deleted_filter_KeepsIncomplete(todos) ==
    SelectSeq(todos, LAMBDA t : t.deleted_at = None \/ ~t.completed)

clear_deleted_filter(todos) == SelectSeq(todos, KeepOnClearDeleted)

(***************************************************************************)
(* The listing views of index().                                           *)
(***************************************************************************)
IsActive(t) == ~t.completed /\ t.deleted_at = None
IsCompleted(t) == t.completed /\ t.deleted_at = None
IsDeleted(t) == t.deleted_at # None
\* variant: the last branch and the all count take every record
IsNotDeleted_Any(t) == TRUE

IsNotDeleted(t) == t.deleted_at = None

filtered_view(todos, current_filter) ==
    IF current_filter = "active" THEN SelectSeq(todos, IsActive)
    ELSE IF current_filter = "completed" THEN SelectSeq(todos, IsCompleted)
    ELSE IF current_filter = "deleted" THEN SelectSeq(todos, IsDeleted)
    ELSE SelectSeq(todos, IsNotDeleted)

counts(todos) ==
    [active |-> Len(SelectSeq(todos, IsActive)),
     completed |-> Len(SelectSeq(todos, IsCompleted)),
     deleted |-> Len(SelectSeq(todos, IsDeleted)),
     all |-> Len(SelectSeq(todos, IsNotDeleted))]

(***************************************************************************)
(* Responses.                                                              *)
(***************************************************************************)
Redirect == [status |-> 302, location |-> "/"]
NoResponse == [status |-> 0]

NoRequest == [op |-> "none"]
Workers == {"w1", "w2"}
NoWorker == "none"
\* snap is the list load_todos returned, todos the list passed to save_todos,
\* was (history) the file as write_text found it when it opened it
Idle == [pc |-> "idle", req |-> NoRequest, snap |-> << >>, todos |-> << >>,
         was |-> FileMissing, resp |-> NoResponse]

(***************************************************************************)
(* The file the server starts on: none, one that does not parse, or one an *)
(* earlier run of the program has left.  The records of an earlier run     *)
(* carry the import time of that run and were deleted during it.           *)
(***************************************************************************)
EarlierImportTime == ImportTime - 2
EarlierDeleteTime == ImportTime - 1

EarlierTodo(id, completed, deleted) ==
    [id |-> id,
     text |-> <<"b">>,
     completed |-> completed,
     created_at |-> isoformat(EarlierImportTime),
     deleted_at |-> IF deleted THEN isoformat(EarlierDeleteTime) ELSE None]

EarlierCollections ==
    {<<EarlierTodo(1, FALSE, FALSE)>>,
     <<EarlierTodo(1, TRUE, TRUE)>>,
     <<EarlierTodo(2, TRUE, TRUE), EarlierTodo(1, TRUE, FALSE)>>}

InitialFiles ==
    {FileMissing, FileGarbled(1)}
        \cup {save_todos(FileMissing, todos) : todos \in EarlierCollections}

Init ==
    /\ file \in InitialFiles
    /\ now = ImportTime + 1
    /\ issued = Ids(load_todos(file))
    /\ wk = [w \in Workers |-> Idle]
    /\ started = 0
    /\ lastWriter = NoWorker
    /\ serial = TRUE

(***************************************************************************)
(* The threaded server (app.run): handlers of different requests run       *)
(* interleaved and nothing locks the file.  A handler takes three steps:   *)
(* it loads the file and computes its new list; write_text opens           *)
(* (truncates) the file; write_text writes the text and closes the file    *)
(* and the handler responds.  A handler that does not reach save_todos     *)
(* responds in its first step.                                             *)
(***************************************************************************)
\* whether the handler of r reaches save_todos
Saves(r) ==
    /\ r.op \notin {"index", "api_list"}
    /\ r.op = "add" => strip(or_empty(r.text)) # EmptyStr

\* the list the handler of r passes to save_todos after loading todos at time t
handler_todos(r, todos, t) ==
    CASE r.op = "add" ->
            (IF strip(or_empty(r.text)) # EmptyStr
             THEN add_insert(todos, strip(or_empty(r.text)))
             ELSE todos)
      [] r.op = "toggle" -> toggle_loop(todos, r.id)
      [] r.op = "delete" -> delete_loop(todos, r.id, t)
      [] r.op = "restore" -> restore_loop(todos, r.id)
      [] r.op = "clear_completed" -> clear_completed_filter(todos)
      [] r.op = "clear_deleted" -> clear_deleted_filter(todos)
      [] OTHER -> todos

handler_response(r, todos) ==
    CASE r.op = "index" ->
            [status |-> 200,
             filtered |-> filtered_view(todos, r.filter),
             counts |-> counts(todos),
             current_filter |-> r.filter]
      [] r.op = "api_list" -> [status |-> 200, json |-> dumps(todos)]
      [] OTHER -> Redirect

\* the handler run by w is between its load and the end of its write
Busy(w) == wk[w].pc \in {"loaded", "writing"}

\* another handler is between its load and the end of its write
Overlaps(w) == \E o \in Workers \ {w} : Busy(o)

\* the server starts a thread for each request; the threads are alike, and
\* the request goes to the first worker that is not busy
FirstFree(w) == ~Busy(w) /\ (w = "w2" => Busy("w1"))

\* a worker takes request r and runs its handler up to save_todos; t is the
\* clock reading of the handler when it takes one, the latest reading otherwise
Load(w, r, t) ==
    LET todos == load_todos(file)
    IN /\ FirstFree(w)
       /\ started < MaxRequests
       /\ started' = started + 1
       /\ wk' = [wk EXCEPT ![w] =
                    [pc |-> IF Saves(r) THEN "loaded" ELSE "done",
                     req |-> r,
                     snap |-> todos,
                     todos |-> handler_todos(r, todos, t),
                     was |-> FileMissing,
                     resp |-> IF Saves(r) THEN NoResponse
                              ELSE handler_response(r, todos)]]
       /\ issued' = IF r.op = "add" /\ Saves(r)
                    THEN issued \cup {get_next_id(todos)}
                    ELSE issued
       /\ serial' = (serial /\ ~Overlaps(w))
       /\ now' = t
       /\ UNCHANGED <<file, lastWriter>>

\* POST /add, up to save_todos
add(w, raw) ==
    /\ raw \in FormTexts
    /\ Load(w, [op |-> "add", text |-> raw], now)

\* POST /toggle/<int:todo_id>, up to save_todos
toggle(w, todo_id) ==
    /\ todo_id \in IdInputs
    /\ Load(w, [op |-> "toggle", id |-> todo_id], now)

\* POST /delete/<int:todo_id>, up to save_todos; datetime.utcnow() returns t
delete(w, todo_id, t) ==
    /\ todo_id \in IdInputs
    /\ t >= now
    /\ Load(w, [op |-> "delete", id |-> todo_id], t)

\* POST /restore/<int:todo_id>, up to save_todos
restore(w, todo_id) ==
    /\ todo_id \in IdInputs
    /\ Load(w, [op |-> "restore", id |-> todo_id], now)

\* POST /clear/completed, up to save_todos
clear_completed(w) ==
    /\ w \in Workers
    /\ Load(w, [op |-> "clear_completed"], now)

\* POST /clear/deleted, up to save_todos
clear_deleted(w) ==
    /\ w \in Workers
    /\ Load(w, [op |-> "clear_deleted"], now)

\* GET /
index(w, current_filter) ==
    /\ current_filter \in Filters
    /\ Load(w, [op |-> "index", filter |-> current_filter], now)

\* GET /api/todos
api_list(w) ==
    /\ w \in Workers
    /\ Load(w, [op |-> "api_list"], now)

\* save_todos: write_text opens the file for writing
OpenFile(w) ==
    /\ wk[w].pc = "loaded"
    /\ file' = open_w(file)
    /\ wk' = [wk EXCEPT ![w].pc = "writing", ![w].was = file]
    /\ UNCHANGED <<now, issued, started, lastWriter, serial>>

\* save_todos: write_text writes the text and closes the file; the handler
\* responds
WriteFile(w) ==
    /\ wk[w].pc = "writing"
    /\ file' = write_close(file, wk[w].todos)
    /\ wk' = [wk EXCEPT ![w].pc = "done",
                        ![w].was = FileMissing,
                        ![w].resp = handler_response(wk[w].req, wk[w].todos)]
    /\ lastWriter' = w
    /\ UNCHANGED <<now, issued, started, serial>>

Next ==
    \/ \E w \in Workers, raw \in FormTexts : add(w, raw)
    \/ \E w \in Workers, todo_id \in IdInputs : toggle(w, todo_id)
    \/ \E w \in Workers, todo_id \in IdInputs, t \in Times :
          delete(w, todo_id, t)
    \/ \E w \in Workers, todo_id \in IdInputs : restore(w, todo_id)
    \/ \E w \in Workers : clear_completed(w)
    \/ \E w \in Workers : clear_deleted(w)
    \/ \E w \in Workers, current_filter \in Filters : index(w, current_filter)
    \/ \E w \in Workers : api_list(w)
    \/ \E w \in Workers : OpenFile(w)
    \/ \E w \in Workers : WriteFile(w)

Spec == Init /\ [][Next]_vars

(***************************************************************************)
(* The server started on a todos.json it did not write: an empty file, or  *)
(* a JSON array of one object with the five keys whose text is null.       *)
(* The Todo constructor checks the keywords, not the types of the values.  *)
(***************************************************************************)
ForeignFile ==
    FileJson(<<[id |-> JNum(1),
                text |-> JNull,
                completed |-> JFalse,
                created_at |-> JStr(isoformat(ImportTime)),
                deleted_at |-> JNull]>>)

InitOnExistingFile ==
    /\ file \in {FileTruncated, ForeignFile}
    /\ now = ImportTime + 1
    /\ issued = Ids(load_todos(file))
    /\ wk = [w \in Workers |-> Idle]
    /\ started = 0
    /\ lastWriter = NoWorker
    /\ serial = TRUE

SpecOnExistingFile == InitOnExistingFile /\ [][Next]_vars

(***************************************************************************)
(* Vocabulary of the properties.                                           *)
(***************************************************************************)
\* the persisted collection: what a load of the file returns
Stored == load_todos(file)

\* the worker holds a request whose handler has run its first step
Taken(w) == wk[w].pc # "idle"

\* the worker has answered its request
Finished(w) == wk[w].pc = "done"

\* the step is the first step of a handler run by w
Loads(w) == started' # started /\ wk'[w] # wk[w]

\* the step is the last step of a saving handler run by w
Writes(w) == wk[w].pc = "writing" /\ wk'[w].pc = "done"

\* the saving request of w has been answered, no request so far has
\* overlapped another, and no later request has opened the file
Settled(w) ==
    /\ serial
    /\ wk[w].pc = "done"
    /\ Saves(wk[w].req)
    /\ lastWriter = w
    /\ \A o \in Workers \ {w} : wk[o].pc # "writing"

\* the collection the request of w leaves: what the file holds when the
\* request is settled, the list its handler built otherwise
After(w) == IF Settled(w) THEN Stored ELSE wk[w].todos

\* the submitted text has a character that is not whitespace
NonBlank(raw) == raw # None /\ \E i \in 1 .. Len(raw) : raw[i] \notin Whitespace

\* text is raw without its leading and trailing whitespace
IsTrimOf(text, raw) ==
    /\ text # EmptyStr
    /\ text[1] \notin Whitespace
    /\ text[Len(text)] \notin Whitespace
    /\ \E a, b \in 0 .. Len(raw) :
          /\ a + b <= Len(raw)
          /\ text = SubSeq(raw, a + 1, Len(raw) - b)
          /\ \A i \in 1 .. a : raw[i] \in Whitespace
          /\ \A i \in (Len(raw) - b + 1) .. Len(raw) : raw[i] \in Whitespace

UniqueIds(todos) ==
    \A i, k \in 1 .. Len(todos) : todos[i].id = todos[k].id => i = k

HasId(todos, id) == \E i \in 1 .. Len(todos) : todos[i].id = id

RecordState(t) ==
    IF t.deleted_at # None THEN "Deleted"
    ELSE IF t.completed THEN "ActiveCompleted" ELSE "ActiveIncomplete"

ActiveStates == {"ActiveIncomplete", "ActiveCompleted"}

(***************************************************************************)
(* C1: the ids handed out by successive adds are strictly increasing over  *)
(* the whole history, so an id once assigned is never assigned again, even *)
(* after its record was purged.  Checked for requests that do not overlap. *)
(***************************************************************************)
C1_IdsNeverReused ==
    [][\A w \in Workers :
          (/\ Loads(w)
           /\ serial'
           /\ wk'[w].req.op = "add"
           /\ NonBlank(wk'[w].req.text))
             => \A i \in issued : i < Head(wk'[w].todos).id]_vars

(***************************************************************************)
(* C2: no two records of the persisted collection have the same id; the    *)
(* first record added to an empty collection gets id 1 and every later add *)
(* gets the largest existing id plus one.                                  *)
(***************************************************************************)
C2_AddAssignsMaxPlusOne(old, new) ==
    LET id == Head(new).id
    IN /\ old = << >> => id = 1
       /\ old # << >> =>
             /\ HasId(old, id - 1)
             /\ \A i \in 1 .. Len(old) : old[i].id < id

C2_UniqueIds ==
    /\ UniqueIds(Stored)
    /\ \A w \in Workers :
          (Taken(w) /\ wk[w].req.op = "add" /\ NonBlank(wk[w].req.text)) =>
              \A old \in {wk[w].snap}, new \in {After(w)} :
                  /\ UniqueIds(new)
                  /\ C2_AddAssignsMaxPlusOne(old, new)

\* an add has stored a second record next to a soft-deleted one
C2_Witness ==
    \E w \in Workers :
        /\ Settled(w)
        /\ wk[w].req.op = "add"
        /\ Len(Stored) = 2
        /\ Stored[1].id = 2
        /\ Stored[2].id = 1
        /\ Stored[2].deleted_at # None

(***************************************************************************)
(* C3: with requests handled one at a time, a record leaves the persisted  *)
(* collection only by clear/completed when it was completed and not        *)
(* deleted, or by clear/deleted when it was soft-deleted.                  *)
(***************************************************************************)
C3_OnlyPurgesRemove ==
    \A w \in Workers :
        Taken(w) =>
            \A old \in {wk[w].snap}, new \in {After(w)} :
                \A i \in 1 .. Len(old) :
                    ~HasId(new, old[i].id) =>
                        \/ /\ wk[w].req.op = "clear_completed"
                           /\ old[i].completed
                           /\ old[i].deleted_at = None
                        \/ /\ wk[w].req.op = "clear_deleted"
                           /\ old[i].deleted_at # None

\* clear/deleted has removed a record and kept an active completed one
C3_Witness ==
    \E w \in Workers :
        /\ Settled(w)
        /\ wk[w].req.op = "clear_deleted"
        /\ Len(wk[w].snap) > Len(Stored)
        /\ \E i \in 1 .. Len(Stored) : RecordState(Stored[i]) = "ActiveCompleted"

(***************************************************************************)
(* C4: restore of an active record, toggle or delete of a soft-deleted     *)
(* record, and toggle, delete or restore of an id no record has leave the  *)
(* collection unchanged and end with the redirect.                         *)
(***************************************************************************)
C4_Eligible(r, todos) ==
    \E i \in 1 .. Len(todos) :
        /\ todos[i].id = r.id
        /\ (todos[i].deleted_at # None) = (r.op = "restore")

C4_SilentNoOp ==
    \A w \in Workers :
        (/\ Taken(w)
         /\ wk[w].req.op \in {"toggle", "delete", "restore"}
         /\ ~C4_Eligible(wk[w].req, wk[w].snap))
           => /\ After(w) = wk[w].snap
              /\ wk[w].todos = wk[w].snap
              /\ Finished(w) => wk[w].resp = Redirect

\* a toggle of a soft-deleted record was handled
C4_Witness ==
    \E w \in Workers :
        /\ Settled(w)
        /\ wk[w].req.op = "toggle"
        /\ wk[w].resp = Redirect
        /\ \E i \in 1 .. Len(Stored) :
              /\ Stored[i].id = wk[w].req.id
              /\ Stored[i].deleted_at # None
              /\ Stored[i].completed

(***************************************************************************)
(* C5: delete leaves completed alone, nothing changes completed while a    *)
(* record is soft-deleted, and restore clears deleted_at and leaves        *)
(* completed as it was when the record was deleted.                        *)
(***************************************************************************)
C5_CompletedIndependent ==
    \A w \in Workers :
        Taken(w) =>
            \A r \in {wk[w].req}, old \in {wk[w].snap}, new \in {After(w)} :
                \A i \in 1 .. Len(old), k \in 1 .. Len(new) :
                    old[i].id = new[k].id =>
                        /\ r.op = "delete" => new[k].completed = old[i].completed
                        /\ old[i].deleted_at # None =>
                              new[k].completed = old[i].completed
                        /\ (r.op = "delete" /\ r.id = old[i].id
                                /\ old[i].deleted_at = None) =>
                              new[k].deleted_at # None
                        /\ (r.op = "restore" /\ r.id = old[i].id
                                /\ old[i].deleted_at # None) =>
                              /\ new[k].deleted_at = None
                              /\ new[k].completed = old[i].completed

\* a record that was completed when it was deleted has been restored and is
\* still completed
C5_Witness ==
    \E w \in Workers :
        /\ Settled(w)
        /\ wk[w].req.op = "restore"
        /\ \E i \in 1 .. Len(Stored) :
              /\ Stored[i].id = wk[w].req.id
              /\ Stored[i].completed
              /\ Stored[i].deleted_at = None
              /\ wk[w].snap[i].deleted_at # None

(***************************************************************************)
(* C6: after clear/completed the collection is the prior collection, in    *)
(* order, without the records that were completed and not deleted.         *)
(***************************************************************************)
C6_NotActiveCompleted(t) == ~(t.completed /\ t.deleted_at = None)

C6_ClearCompleted ==
    \A w \in Workers :
        (Taken(w) /\ wk[w].req.op = "clear_completed")
            => After(w) = SelectSeq(wk[w].snap, C6_NotActiveCompleted)

\* clear/completed has removed a record and kept a soft-deleted completed one
C6_Witness ==
    \E w \in Workers :
        /\ Settled(w)
        /\ wk[w].req.op = "clear_completed"
        /\ Len(wk[w].snap) > Len(Stored)
        /\ \E i \in 1 .. Len(Stored) :
              Stored[i].completed /\ Stored[i].deleted_at # None

(***************************************************************************)
(* C7: every record follows the state machine over Active-Incomplete,      *)
(* Active-Completed and Deleted: created Active-Incomplete by add, toggled *)
(* between the active states, deleted from an active state, restored from  *)
(* Deleted, removed from Active-Completed by clear/completed and from      *)
(* Deleted by clear/deleted; nothing else appears, changes or disappears.  *)
(***************************************************************************)
C7_Allowed(from, to, r, id) ==
    \/ from = to
    \/ /\ from \in ActiveStates /\ to \in ActiveStates
       /\ r.op = "toggle" /\ r.id = id
    \/ /\ from \in ActiveStates /\ to = "Deleted"
       /\ r.op = "delete" /\ r.id = id
    \/ /\ from = "Deleted" /\ to \in ActiveStates
       /\ r.op = "restore" /\ r.id = id

C7_StateMachine ==
    \A w \in Workers :
        Taken(w) =>
            \A r \in {wk[w].req}, old \in {wk[w].snap}, new \in {After(w)} :
                /\ \A i \in 1 .. Len(old) :
                      IF HasId(new, old[i].id)
                      THEN \A k \in 1 .. Len(new) :
                              new[k].id = old[i].id =>
                                  C7_Allowed(RecordState(old[i]),
                                             RecordState(new[k]), r, old[i].id)
                      ELSE \/ /\ RecordState(old[i]) = "ActiveCompleted"
                              /\ r.op = "clear_completed"
                           \/ /\ RecordState(old[i]) = "Deleted"
                              /\ r.op = "clear_deleted"
                /\ \A k \in 1 .. Len(new) :
                      ~HasId(old, new[k].id) =>
                          /\ r.op = "add"
                          /\ RecordState(new[k]) = "ActiveIncomplete"

\* a record was restored to Active-Completed after another was purged
C7_Witness ==
    \E w \in Workers :
        /\ Settled(w)
        /\ wk[w].req.op = "restore"
        /\ \E i \in 1 .. Len(Stored) :
              /\ Stored[i].id = wk[w].req.id
              /\ RecordState(Stored[i]) = "ActiveCompleted"
        /\ Cardinality(issued) > Len(Stored)

(***************************************************************************)
(* C10: an add whose text is not blank puts the new record in front of the *)
(* previous collection, which is otherwise unchanged; the record has an id *)
(* no other record has, the trimmed text, completed false and deleted_at   *)
(* null, and is first in the active view and in the all view.              *)
(***************************************************************************)
C10_AddPrepends ==
    \A w \in Workers :
        (Taken(w) /\ wk[w].req.op = "add" /\ NonBlank(wk[w].req.text)) =>
            \A old \in {wk[w].snap}, new \in {After(w)} :
                /\ Len(new) = Len(old) + 1
                /\ Tail(new) = old
                /\ ~HasId(old, Head(new).id)
                /\ IsTrimOf(Head(new).text, wk[w].req.text)
                /\ Head(new).completed = FALSE
                /\ Head(new).deleted_at = None
                /\ Head(filtered_view(new, "active")) = Head(new)
                /\ Head(filtered_view(new, "all")) = Head(new)

\* a text with surrounding whitespace was added in front of an older record
C10_Witness ==
    \E w \in Workers :
        /\ Settled(w)
        /\ wk[w].req.op = "add"
        /\ NonBlank(wk[w].req.text)
        /\ wk[w].req.text # Head(Stored).text
        /\ Len(Stored) = 2

(***************************************************************************)
(* C8: a load never observes a partial write: a load that reads the file   *)
(* while a save has opened it and not yet written it returns the           *)
(* collection the file held before that save or the collection being       *)
(* saved.                                                                  *)
(***************************************************************************)
C8_LoadSeesOldOrNew ==
    [][\A r \in Workers :
          (Loads(r) /\ file.kind = "truncated")
             => \E w \in Workers \ {r} :
                    /\ wk[w].pc = "writing"
                    /\ wk'[r].snap \in {load_todos(wk[w].was), wk[w].todos}]_vars

(***************************************************************************)
(* C9: when two saving requests have both completed after loading the same *)
(* snapshot, the file holds what the later writer saved, computed from     *)
(* that snapshot alone, so the effect of the earlier writer is lost: a     *)
(* record it added is not in the persisted collection.                     *)
(***************************************************************************)
C9_Mutating(r) ==
    /\ r.op \in {"add", "toggle", "delete", "restore", "clear_completed", "clear_deleted"}
    /\ r.op = "add" => NonBlank(r.text)

C9_BothDone(first, second) ==
    /\ first # second
    /\ wk[first].pc = "done" /\ wk[second].pc = "done"
    /\ C9_Mutating(wk[first].req) /\ C9_Mutating(wk[second].req)
    /\ wk[first].snap = wk[second].snap
    /\ lastWriter = second

C9_LostUpdate ==
    \A first, second \in Workers :
        C9_BothDone(first, second) =>
            /\ file.kind \in {"json", "garbled"}
            /\ file.kind = "json" => Stored = wk[second].todos
            /\ (wk[first].req.op = "add" /\ wk[second].req.op # "add")
                  => ~HasId(Stored, Head(wk[first].todos).id)

\* an add and a toggle of an existing record loaded the same snapshot, the
\* toggle wrote last and the added record is not in the file
C9_Witness ==
    \E first, second \in Workers :
        /\ C9_BothDone(first, second)
        /\ ~serial
        /\ wk[first].req.op = "add"
        /\ wk[second].req.op = "toggle"
        /\ wk[second].todos # wk[second].snap
        /\ file.kind = "json"
        /\ Len(Stored) = 1
        /\ Stored[1].completed

(***************************************************************************)
(* C11: an add whose text is missing, empty or only whitespace is ignored: *)
(* its handler does not reach the save, so the persisted file and the      *)
(* collection stay as they were, no id is handed out, and the request ends *)
(* with the redirect.                                                      *)
(***************************************************************************)
C11_BlankAddIgnored ==
    [][\A w \in Workers :
          (Loads(w) /\ wk'[w].req.op = "add" /\ ~NonBlank(wk'[w].req.text))
             => /\ wk'[w].pc = "done"
                /\ wk'[w].resp = Redirect
                /\ wk'[w].todos = wk'[w].snap
                /\ file' = file
                /\ issued' = issued]_vars

\* a whitespace-only text was submitted while the collection had a record
C11_Witness ==
    \E w \in Workers :
        /\ Finished(w)
        /\ wk[w].req.op = "add"
        /\ wk[w].req.text = <<"\t", " ">>
        /\ wk[w].resp = Redirect
        /\ Len(wk[w].snap) = 1
        /\ Stored = wk[w].snap
        /\ issued = {1}

(***************************************************************************)
(* C12: the active, completed and deleted views are pairwise disjoint and  *)
(* every record is in exactly one of them; the all view is the union of    *)
(* the active and the completed view; the counts are the sizes of the      *)
(* views, so the active and completed counts add up to the all count; a    *)
(* filter value that is not recognized selects what all selects.           *)
(***************************************************************************)
C12_Members(view) == {view[i] : i \in 1 .. Len(view)}

C12_Partition(todos, act, com, del, all) ==
    /\ C12_Members(act) \cap C12_Members(com) = {}
    /\ C12_Members(act) \cap C12_Members(del) = {}
    /\ C12_Members(com) \cap C12_Members(del) = {}
    /\ C12_Members(act) \cup C12_Members(com) \cup C12_Members(del)
          = C12_Members(todos)
    /\ Len(act) + Len(com) + Len(del) = Len(todos)
    /\ C12_Members(all) = C12_Members(act) \cup C12_Members(com)
    /\ Len(all) = Len(act) + Len(com)

C12_ViewsOf(todos) ==
    \A act \in {filtered_view(todos, "active")},
       com \in {filtered_view(todos, "completed")},
       del \in {filtered_view(todos, "deleted")},
       all \in {filtered_view(todos, "all")},
       n \in {counts(todos)} :
         /\ C12_Partition(todos, act, com, del, all)
         /\ n.active = Len(act)
         /\ n.completed = Len(com)
         /\ n.deleted = Len(del)
         /\ n.all = Len(all)
         /\ n.active + n.completed = n.all
         /\ filtered_view(todos, "other") = all

C12_ViewsPartition ==
    /\ C12_ViewsOf(Stored)
    /\ \A w \in Workers :
          (Taken(w) /\ wk[w].req.op = "index") =>
              \A r \in {wk[w].req}, resp \in {wk[w].resp} :
                  /\ C12_ViewsOf(wk[w].snap)
                  /\ resp.filtered = filtered_view(wk[w].snap, r.filter)
                  /\ resp.counts = counts(wk[w].snap)
                  /\ resp.counts.active + resp.counts.completed
                        = resp.counts.all
                  /\ Len(resp.filtered) =
                        (CASE r.filter = "active" -> resp.counts.active
                           [] r.filter = "completed" -> resp.counts.completed
                           [] r.filter = "deleted" -> resp.counts.deleted
                           [] OTHER -> resp.counts.all)

\* the listing was requested with an unrecognized filter while the
\* collection held a soft-deleted record and an active completed one
C12_Witness ==
    \E w \in Workers :
        /\ Finished(w)
        /\ wk[w].req.op = "index"
        /\ wk[w].req.filter = "other"
        /\ Len(wk[w].resp.filtered) = 1
        /\ wk[w].resp.counts.deleted = 1
        /\ wk[w].resp.counts.completed = 1
        /\ Len(wk[w].snap) = 2

(***************************************************************************)
(* C13: after clear/deleted the collection is the prior collection, in     *)
(* order, without the soft-deleted records: each of them is removed        *)
(* whatever its completed flag, each active record is kept as it was, and  *)
(* the deleted view is empty.                                              *)
(***************************************************************************)
C13_NotSoftDeleted(t) == t.deleted_at = None

C13_ClearDeleted ==
    \A w \in Workers :
        (Taken(w) /\ wk[w].req.op = "clear_deleted") =>
            \A old \in {wk[w].snap}, new \in {After(w)} :
                /\ new = SelectSeq(old, C13_NotSoftDeleted)
                /\ \A i \in 1 .. Len(old) :
                      IF old[i].deleted_at # None
                      THEN ~HasId(new, old[i].id)
                      ELSE \E k \in 1 .. Len(new) : new[k] = old[i]
                /\ filtered_view(new, "deleted") = << >>

\* clear/deleted has removed the older record and kept the newer one, which
\* is active and not completed
C13_Witness ==
    \E w \in Workers :
        /\ Settled(w)
        /\ wk[w].req.op = "clear_deleted"
        /\ Len(wk[w].snap) = 2
        /\ Len(Stored) = 1
        /\ Stored[1].id = 2
        /\ RecordState(Stored[1]) = "ActiveIncomplete"

(***************************************************************************)
(* C14: load never fails: when the file is missing or its content cannot   *)
(* be parsed into valid records (an integer id, a string text, a boolean   *)
(* completed, a string created_at, a string or null deleted_at), load      *)
(* returns the empty collection, and every request behaves as on an empty  *)
(* collection and responds normally: the next add assigns id 1.            *)
(***************************************************************************)
C14_ValidObject(obj) ==
    /\ DOMAIN obj \subseteq FieldNames
    /\ RequiredFields \subseteq DOMAIN obj
    /\ obj.id.j = "number"
    /\ obj.text.j = "string"
    /\ "completed" \in DOMAIN obj => obj.completed.j \in {"true", "false"}
    /\ "created_at" \in DOMAIN obj => obj.created_at.j = "string"
    /\ "deleted_at" \in DOMAIN obj => obj.deleted_at.j \in {"string", "null"}

C14_HoldsValidRecords(f) ==
    /\ f.kind = "json"
    /\ \A i \in 1 .. Len(f.doc) : C14_ValidObject(f.doc[i])

C14_LoadNeverFails ==
    [][\A w \in Workers :
          (Loads(w) /\ ~C14_HoldsValidRecords(file)) =>
              /\ wk'[w].snap = << >>
              /\ wk'[w].pc = "done" => wk'[w].resp.status \in {200, 302}
              /\ (wk'[w].req.op = "add" /\ NonBlank(wk'[w].req.text)) =>
                    /\ Len(wk'[w].todos) = 1
                    /\ Head(wk'[w].todos).id = 1]_vars

(***************************************************************************)
(* C15: the created_at of a record is the time of the add request that     *)
(* created it, so the records of the collection, newest first, carry       *)
(* created_at values that do not increase towards the older records.       *)
(***************************************************************************)
C15_CreatedAtIsAddTime ==
    [][\A w \in Workers :
          (Loads(w) /\ wk'[w].req.op = "add" /\ NonBlank(wk'[w].req.text)) =>
              \A new \in {wk'[w].todos} :
                  /\ Head(new).created_at[2] >= now
                  /\ \A k \in 2 .. Len(new) :
                        new[k].created_at[2] <= Head(new).created_at[2]]_vars

(***************************************************************************)
(* C16: round trip: a load after a save returns the collection that was    *)
(* saved, record by record and field by field, in the same order; and      *)
(* saving what load returns leaves what load returns unchanged.            *)
(***************************************************************************)
C16_RoundTrip ==
    \A w \in Workers :
        /\ wk[w].pc = "loaded" =>
              load_todos(save_todos(file, wk[w].todos)) = wk[w].todos
        /\ Settled(w) =>
              \A todos \in {Stored} :
                  /\ todos = wk[w].todos
                  /\ load_todos(save_todos(file, todos)) = todos

\* a collection of two records, one of them completed and soft-deleted by
\* this request, was saved by a delete request and loaded again
C16_Witness ==
    \E w \in Workers :
        /\ Settled(w)
        /\ wk[w].req.op = "delete"
        /\ Len(Stored) = 2
        /\ \E i \in 1 .. Len(Stored) :
              /\ Stored[i].id = wk[w].req.id
              /\ Stored[i].completed
              /\ Stored[i].deleted_at # None
              /\ wk[w].snap[i].deleted_at = None

(***************************************************************************)
(* C17: a request writes the file only if its operation changed the        *)
(* collection: the listing requests never write, and a toggle, delete or   *)
(* restore without an eligible record and a clear that removes nothing     *)
(* leave the content of the file as it was, also when the file is missing  *)
(* or holds content that cannot be parsed.  Checked for requests that do   *)
(* not overlap, from the file the save found to the file it left.          *)
(***************************************************************************)
C17_WritesOnlyOnChange ==
    [][\A w \in Workers :
          /\ (Loads(w) /\ wk'[w].req.op \in {"index", "api_list"})
                => (file' = file /\ wk'[w].pc = "done")
          /\ (/\ Writes(w)
              /\ serial
              /\ wk[w].req.op \in {"toggle", "delete", "restore",
                                    "clear_completed", "clear_deleted"}
              /\ wk[w].todos = wk[w].snap)
                 => file' = wk[w].was]_vars

(***************************************************************************)
(* C18: a toggle, delete or restore changes at most one record, the one    *)
(* with the requested id, and in it only completed (toggle) or deleted_at  *)
(* (delete, restore); no request changes the id, the text or the           *)
(* created_at of a record that stays in the collection.                    *)
(***************************************************************************)
C18_OnlyField(before, after, op) ==
    IF op = "toggle"
    THEN after = [before EXCEPT !.completed = after.completed]
    ELSE after = [before EXCEPT !.deleted_at = after.deleted_at]

C18_FrameOfUpdates ==
    \A w \in Workers :
        Taken(w) =>
            \A r \in {wk[w].req}, old \in {wk[w].snap}, new \in {After(w)} :
                /\ r.op \in {"toggle", "delete", "restore"} =>
                      /\ Len(new) = Len(old)
                      /\ \A i \in 1 .. Len(old) :
                            new[i] # old[i] =>
                                /\ old[i].id = r.id
                                /\ C18_OnlyField(old[i], new[i], r.op)
                      /\ \A i, k \in 1 .. Len(old) :
                            (new[i] # old[i] /\ new[k] # old[k]) => i = k
                /\ \A i \in 1 .. Len(old), k \in 1 .. Len(new) :
                      old[i].id = new[k].id =>
                          /\ new[k].text = old[i].text
                          /\ new[k].created_at = old[i].created_at

\* a record was restored while the other record of the collection stayed
\* soft-deleted and completed
C18_Witness ==
    \E w \in Workers :
        /\ Settled(w)
        /\ wk[w].req.op = "restore"
        /\ Len(Stored) = 2
        /\ \E i, k \in 1 .. Len(Stored) :
              /\ Stored[i].id = wk[w].req.id
              /\ Stored[i].deleted_at = None
              /\ wk[w].snap[i].deleted_at # None
              /\ Stored[k].id # wk[w].req.id
              /\ Stored[k].deleted_at # None
              /\ Stored[k].completed

(***************************************************************************)
(* C19: with the loads and saves of concurrent requests interleaved, every *)
(* collection passed to a save, and so every collection the file holds,    *)
(* has pairwise distinct ids: it is the snapshot the request loaded with   *)
(* no record added, or with one new record whose id is the largest id of   *)
(* the snapshot plus one.  Two adds can be handed the same id; two records *)
(* with the same id are never stored.                                      *)
(***************************************************************************)
C19_Saving(w) ==
    /\ wk[w].pc \in {"loaded", "writing", "done"}
    /\ Saves(wk[w].req)

C19_DistinctIdsSaved ==
    /\ UniqueIds(Stored)
    /\ \A w \in Workers :
          C19_Saving(w) =>
              \A snap \in {wk[w].snap}, todos \in {wk[w].todos} :
                  /\ UniqueIds(snap)
                  /\ UniqueIds(todos)
                  /\ IF wk[w].req.op = "add"
                     THEN /\ Len(todos) = Len(snap) + 1
                          /\ Ids(todos) = Ids(snap) \cup {MaxOf(Ids(snap)) + 1}
                          /\ \A i \in 1 .. Len(snap) :
                                \E k \in 1 .. Len(todos) : todos[k] = snap[i]
                     ELSE Ids(todos) \subseteq Ids(snap)

\* two adds that loaded the same snapshot were handed the same id, both
\* have written, and the file holds one of the two records next to the
\* record of the snapshot
C19_Witness ==
    \E first, second \in Workers :
        /\ first # second
        /\ wk[first].pc = "done" /\ wk[second].pc = "done"
        /\ wk[first].req.op = "add" /\ wk[second].req.op = "add"
        /\ Saves(wk[first].req) /\ Saves(wk[second].req)
        /\ wk[first].snap = wk[second].snap
        /\ Len(wk[first].snap) = 1
        /\ Head(wk[first].todos).id = Head(wk[second].todos).id
        /\ file.kind = "json"
        /\ Len(Stored) = 2
====
